---- MODULE Spec2Model ----
(***************************************************************************)
(* AssertUnmoved (futures-test/src/future/assert_unmoved.rs): a future     *)
(* combinator that records its own address at the first poll and asserts,  *)
(* at every later poll and at drop, that it still lives at that address.   *)
(*                                                                         *)
(* The model follows one AssertUnmoved value through its life: it is       *)
(* created by new, may be moved by its owner, is polled through a pinned   *)
(* handle, and is dropped once.  The thread that owns it is either running *)
(* normally or unwinding from a panic; while it unwinds only destructors   *)
(* run (the only one in this file is PinnedDrop::drop), the owner of the   *)
(* value may still move it, and the harness may catch the panic.           *)
(*                                                                         *)
(* Spec is the life of a value made by new and used on one thread.         *)
(* SpecThreads adds the hand-over of the value to another thread (the      *)
(* type is Send), SpecClone adds the derived Clone.                        *)
(***************************************************************************)
EXTENDS Integers, Sequences, FiniteSets, TLC

(* ---- bounds ---- *)
NumAddrs     == 3      \* storage locations the value can live at
MaxPolls     == 3      \* poll calls made on the value
MaxRelocs    == 2      \* moves of the value
MaxCatches   == 2      \* panics caught by the harness
MaxUnrelated == 1      \* panics raised by the harness itself
NumOutputs   == 2      \* distinct Fut::Output values
NumThreads   == 2      \* threads the value can be used on
MaxClones    == 1      \* clone() calls followed

(* ---- values ---- *)
Null  == 0                          \* ptr::null()
Addrs == 1..NumAddrs                \* non-null addresses
Threads  == 1..NumThreads
NoThread == 0

Pending    == [kind |-> "Pending", val |-> 0]
Ready(v)   == [kind |-> "Ready",   val |-> v]
InnerPanic == [kind |-> "Panic",   val |-> 0]
\* what one poll of the wrapped future can do: return Pending, return
\* Ready(v), or panic
InnerOutcomes == {Pending, InnerPanic} \cup {Ready(v) : v \in 1..NumOutputs}

\* panic payloads
NoPanic           == "none"
MovedBetweenPolls == "Future moved between poll calls"
MovedBeforeDrop   == "Future moved before drop"
InnerFailure      == "panic of the wrapped future"
Unrelated         == "unrelated panic"
Violations        == {MovedBetweenPolls, MovedBeforeDrop}

VARIABLES
    addr,        \* where the value lives now (&*self as *const Self)
    this_ptr,    \* field this_ptr
    future,      \* field future: the outcomes the wrapped future has produced
    dropped,     \* the value has been dropped
    unwinding,   \* payload of the panic the thread is unwinding from, or NoPanic
    raised,      \* history: every panic raised so far, in order
    results,     \* history: every Poll value returned by poll, in order
    calls,       \* history: number of poll calls made on the value
    relocs,      \* history: number of moves of the value
    movedPinned, \* history: the value was moved after its first poll
    catches,     \* history: number of panics the harness has caught
    dropCtx,     \* history: what the thread was unwinding from when drop ran
    thread,      \* the thread the value is used on now
    parked,      \* per thread other than `thread`: the panic it is unwinding from
    lastCaller,  \* history: the thread that made the last poll call
    pinnedAt,    \* history: where the value lived at its own first poll
    clones       \* history: number of clone() calls followed

vars == <<addr, this_ptr, future, dropped, unwinding, raised, results,
          calls, relocs, movedPinned, catches, dropCtx,
          thread, parked, lastCaller, pinnedAt, clones>>

NotDropped == "not dropped"

\* panicking(), had it been true while any thread is unwinding
panicking_any ==
    unwinding # NoPanic \/ \E t \in Threads : parked[t] # NoPanic

\* std::thread::panicking()
panicking == unwinding # NoPanic

Count(s, x) == Cardinality({i \in 1..Len(s) : s[i] = x})
NumViolations(s) == Cardinality({i \in 1..Len(s) : s[i] \in Violations})
IsStatus(o) == o.kind # "Panic"

\* new, had it captured an address at construction
new_capture(fut) == [future |-> fut, this_ptr |-> 1]

\* AssertUnmoved::new
new(fut) == [future |-> fut, this_ptr |-> Null]

Init ==
    /\ addr \in Addrs
    /\ LET g == new(<< >>) IN
         /\ this_ptr = g.this_ptr
         /\ future = g.future
    /\ dropped = FALSE
    /\ unwinding = NoPanic
    /\ raised = << >>
    /\ results = << >>
    /\ calls = 0
    /\ relocs = 0
    /\ movedPinned = FALSE
    /\ catches = 0
    /\ dropCtx = NotDropped
    /\ thread = 1
    /\ parked = [t \in Threads |-> NoPanic]
    /\ lastCaller = NoThread
    /\ pinnedAt = Null
    /\ clones = 0

\* the wrapped future has returned Poll::Ready to some poll
Completed == \E i \in 1..Len(results) : results[i].kind = "Ready"

\* self.project().future.poll(cx): the wrapped future is polled once; its
\* status is returned as is, its panic unwinds through poll
Delegate ==
    \E out \in InnerOutcomes :
        /\ future' = Append(future, out)
        /\ IF out = InnerPanic
             THEN /\ unwinding' = InnerFailure
                  /\ raised' = Append(raised, InnerFailure)
                  /\ UNCHANGED results
             ELSE /\ results' = Append(results, out)
                  /\ UNCHANGED <<unwinding, raised>>

\* poll without the assert_eq! of the else branch
poll_noassert ==
    /\ ~dropped
    /\ ~panicking
    /\ calls < MaxPolls
    /\ calls' = calls + 1
    /\ LET cur_this == addr IN
         IF this_ptr = Null
           THEN /\ this_ptr' = cur_this
                /\ Delegate
           ELSE /\ UNCHANGED this_ptr
                /\ Delegate
    /\ lastCaller' = thread
    /\ pinnedAt' = IF calls = 0 THEN addr ELSE pinnedAt
    /\ UNCHANGED <<addr, dropped, relocs, movedPinned, catches, dropCtx,
                   thread, parked, clones>>

\* poll that drives the wrapped future but answers Pending whatever it says
poll_swallow ==
    /\ ~dropped
    /\ ~panicking
    /\ calls < MaxPolls
    /\ calls' = calls + 1
    /\ LET cur_this == addr IN
         IF this_ptr # Null /\ this_ptr # cur_this
           THEN /\ unwinding' = MovedBetweenPolls
                /\ raised' = Append(raised, MovedBetweenPolls)
                /\ UNCHANGED <<this_ptr, future, results>>
           ELSE /\ this_ptr' = cur_this
                /\ \E out \in InnerOutcomes :
                     /\ future' = Append(future, out)
                     /\ IF out = InnerPanic
                          THEN /\ unwinding' = InnerFailure
                               /\ raised' = Append(raised, InnerFailure)
                               /\ UNCHANGED results
                          ELSE /\ results' = Append(results, Pending)
                               /\ UNCHANGED <<unwinding, raised>>
    /\ lastCaller' = thread
    /\ pinnedAt' = IF calls = 0 THEN addr ELSE pinnedAt
    /\ UNCHANGED <<addr, dropped, relocs, movedPinned, catches, dropCtx,
                   thread, parked, clones>>

\* poll that stores cur_this before it asserts
poll_recapture ==
    /\ ~dropped
    /\ ~panicking
    /\ calls < MaxPolls
    /\ calls' = calls + 1
    /\ LET cur_this == addr IN
         IF this_ptr = Null
           THEN /\ this_ptr' = cur_this
                /\ Delegate
           ELSE IF this_ptr # cur_this
             THEN /\ this_ptr' = cur_this
                  /\ unwinding' = MovedBetweenPolls
                  /\ raised' = Append(raised, MovedBetweenPolls)
                  /\ UNCHANGED <<future, results>>
             ELSE /\ UNCHANGED this_ptr
                  /\ Delegate
    /\ lastCaller' = thread
    /\ pinnedAt' = IF calls = 0 THEN addr ELSE pinnedAt
    /\ UNCHANGED <<addr, dropped, relocs, movedPinned, catches, dropCtx,
                   thread, parked, clones>>

\* poll that polls the wrapped future first and asserts afterwards
poll_checkafter ==
    /\ ~dropped
    /\ ~panicking
    /\ calls < MaxPolls
    /\ calls' = calls + 1
    /\ LET cur_this == addr IN
         IF this_ptr = Null
           THEN /\ this_ptr' = cur_this
                /\ Delegate
           ELSE IF this_ptr # cur_this
             THEN /\ UNCHANGED <<this_ptr, results>>
                  /\ \E out \in InnerOutcomes :
                       /\ future' = Append(future, out)
                       /\ IF out = InnerPanic
                            THEN /\ unwinding' = InnerFailure
                                 /\ raised' = Append(raised, InnerFailure)
                            ELSE /\ unwinding' = MovedBetweenPolls
                                 /\ raised' = Append(raised, MovedBetweenPolls)
             ELSE /\ UNCHANGED this_ptr
                  /\ Delegate
    /\ lastCaller' = thread
    /\ pinnedAt' = IF calls = 0 THEN addr ELSE pinnedAt
    /\ UNCHANGED <<addr, dropped, relocs, movedPinned, catches, dropCtx,
                   thread, parked, clones>>

\* poll that, once the wrapped future has returned Ready, answers Pending
\* without looking at anything
poll_fused ==
    /\ ~dropped
    /\ ~panicking
    /\ calls < MaxPolls
    /\ calls' = calls + 1
    /\ LET cur_this == addr IN
         IF Completed
           THEN /\ results' = Append(results, Pending)
                /\ UNCHANGED <<this_ptr, future, unwinding, raised>>
           ELSE IF this_ptr = Null
             THEN /\ this_ptr' = cur_this
                  /\ Delegate
             ELSE IF this_ptr # cur_this
               THEN /\ unwinding' = MovedBetweenPolls
                    /\ raised' = Append(raised, MovedBetweenPolls)
                    /\ UNCHANGED <<this_ptr, future, results>>
               ELSE /\ UNCHANGED this_ptr
                    /\ Delegate
    /\ lastCaller' = thread
    /\ pinnedAt' = IF calls = 0 THEN addr ELSE pinnedAt
    /\ UNCHANGED <<addr, dropped, relocs, movedPinned, catches, dropCtx,
                   thread, parked, clones>>

\* <AssertUnmoved as Future>::poll
poll ==
    /\ ~dropped
    /\ ~panicking
    /\ calls < MaxPolls
    /\ calls' = calls + 1
    /\ LET cur_this == addr IN
         IF this_ptr = Null
           THEN /\ this_ptr' = cur_this
                /\ Delegate
           ELSE IF this_ptr # cur_this
             THEN /\ unwinding' = MovedBetweenPolls
                  /\ raised' = Append(raised, MovedBetweenPolls)
                  /\ UNCHANGED <<this_ptr, future, results>>
             ELSE /\ UNCHANGED this_ptr
                  /\ Delegate
    /\ lastCaller' = thread
    /\ pinnedAt' = IF calls = 0 THEN addr ELSE pinnedAt
    /\ UNCHANGED <<addr, dropped, relocs, movedPinned, catches, dropCtx,
                   thread, parked, clones>>

\* drop without the assert_eq!
drop_noassert ==
    /\ ~dropped
    /\ dropped' = TRUE
    /\ dropCtx' = unwinding
    /\ UNCHANGED <<unwinding, raised>>
    /\ UNCHANGED <<addr, this_ptr, future, results, calls, relocs,
                   movedPinned, catches, thread, parked, lastCaller,
                   pinnedAt, clones>>

\* drop without the is_null() test
drop_nonullcheck ==
    /\ ~dropped
    /\ dropped' = TRUE
    /\ dropCtx' = unwinding
    /\ IF ~panicking
         THEN LET cur_this == addr IN
              IF this_ptr # cur_this
                THEN /\ unwinding' = MovedBeforeDrop
                     /\ raised' = Append(raised, MovedBeforeDrop)
                ELSE UNCHANGED <<unwinding, raised>>
         ELSE UNCHANGED <<unwinding, raised>>
    /\ UNCHANGED <<addr, this_ptr, future, results, calls, relocs,
                   movedPinned, catches, thread, parked, lastCaller,
                   pinnedAt, clones>>

\* drop without the panicking() test
drop_nopanicking ==
    /\ ~dropped
    /\ dropped' = TRUE
    /\ dropCtx' = unwinding
    /\ IF this_ptr # Null
         THEN LET cur_this == addr IN
              IF this_ptr # cur_this
                THEN /\ unwinding' = MovedBeforeDrop
                     /\ raised' = Append(raised, MovedBeforeDrop)
                ELSE UNCHANGED <<unwinding, raised>>
         ELSE UNCHANGED <<unwinding, raised>>
    /\ UNCHANGED <<addr, this_ptr, future, results, calls, relocs,
                   movedPinned, catches, thread, parked, lastCaller,
                   pinnedAt, clones>>

\* drop with assert_ne! in the place of assert_eq!
drop_assert_ne ==
    /\ ~dropped
    /\ dropped' = TRUE
    /\ dropCtx' = unwinding
    /\ IF ~panicking /\ this_ptr # Null
         THEN LET cur_this == addr IN
              IF this_ptr = cur_this
                THEN /\ unwinding' = MovedBeforeDrop
                     /\ raised' = Append(raised, MovedBeforeDrop)
                ELSE UNCHANGED <<unwinding, raised>>
         ELSE UNCHANGED <<unwinding, raised>>
    /\ UNCHANGED <<addr, this_ptr, future, results, calls, relocs,
                   movedPinned, catches, thread, parked, lastCaller,
                   pinnedAt, clones>>

\* <AssertUnmoved as PinnedDrop>::drop
drop ==
    /\ ~dropped
    /\ dropped' = TRUE
    /\ dropCtx' = unwinding
    /\ IF ~panicking /\ this_ptr # Null
         THEN LET cur_this == addr IN
              IF this_ptr # cur_this
                THEN /\ unwinding' = MovedBeforeDrop
                     /\ raised' = Append(raised, MovedBeforeDrop)
                ELSE UNCHANGED <<unwinding, raised>>
         ELSE UNCHANGED <<unwinding, raised>>
    /\ UNCHANGED <<addr, this_ptr, future, results, calls, relocs,
                   movedPinned, catches, thread, parked, lastCaller,
                   pinnedAt, clones>>

\* the owner moves the value to another place (Box::new(future))
Relocate ==
    /\ ~dropped
    /\ relocs < MaxRelocs
    /\ \E b \in Addrs \ {addr} : addr' = b
    /\ relocs' = relocs + 1
    /\ movedPinned' = (movedPinned \/ calls > 0)
    /\ UNCHANGED <<this_ptr, future, dropped, unwinding, raised, results,
                   calls, catches, dropCtx, thread, parked, lastCaller,
                   pinnedAt, clones>>

\* the harness catches the panic (#[should_panic]); the unwinding ends
Catch ==
    /\ panicking
    /\ catches < MaxCatches
    /\ unwinding' = NoPanic
    /\ catches' = catches + 1
    /\ UNCHANGED <<addr, this_ptr, future, dropped, raised, results, calls,
                   relocs, movedPinned, dropCtx, thread, parked, lastCaller,
                   pinnedAt, clones>>

\* the code around the value panics for a reason of its own
\* (an assert_eq! on a poll result that fails)
HarnessPanic ==
    /\ ~dropped
    /\ ~panicking
    /\ Count(raised, Unrelated) < MaxUnrelated
    /\ unwinding' = Unrelated
    /\ raised' = Append(raised, Unrelated)
    /\ UNCHANGED <<addr, this_ptr, future, dropped, results, calls, relocs,
                   movedPinned, catches, dropCtx, thread, parked, lastCaller,
                   pinnedAt, clones>>

Next == poll \/ drop \/ Relocate \/ Catch \/ HarnessPanic

Spec == Init /\ [][Next]_vars

\* the value is handed to another thread (unsafe impl Send): the calls that
\* follow are made there, and panicking() is that thread's
Migrate ==
    /\ ~dropped
    /\ \E t \in Threads \ {thread} :
         /\ thread' = t
         /\ unwinding' = parked[t]
         /\ parked' = [parked EXCEPT ![thread] = unwinding, ![t] = NoPanic]
    /\ UNCHANGED <<addr, this_ptr, future, dropped, raised, results, calls,
                   relocs, movedPinned, catches, dropCtx, lastCaller,
                   pinnedAt, clones>>

\* threads: a thread that panics unwinds to its end (nothing catches its
\* panic); the value goes on being used from the other threads
NextThreads == poll \/ drop \/ Relocate \/ HarnessPanic \/ Migrate

SpecThreads == Init /\ [][NextThreads]_vars

\* #[derive(Clone)]: clone() copies this_ptr and clones the wrapped future
\* into a new value, which lives somewhere else than the value it was made
\* from.  From here on the model follows the new value: it has received no
\* call, has not been moved and has raised nothing.
Clone ==
    /\ ~dropped
    /\ ~panicking
    /\ clones < MaxClones
    /\ clones' = clones + 1
    /\ \E b \in Addrs \ {addr} : addr' = b
    /\ this_ptr' = this_ptr
    /\ future' = future
    /\ calls' = 0
    /\ results' = << >>
    /\ raised' = << >>
    /\ relocs' = 0
    /\ movedPinned' = FALSE
    /\ catches' = 0
    /\ lastCaller' = NoThread
    /\ pinnedAt' = Null
    /\ UNCHANGED <<dropped, unwinding, dropCtx, thread, parked>>

NextClone == Next \/ Clone

SpecClone == Init /\ [][NextClone]_vars

(* ---- steps, as seen from outside ---- *)
PollStep == calls' = calls + 1
DropStep == ~dropped /\ dropped'
Moved    == this_ptr # Null /\ addr # this_ptr
NewViolation == NumViolations(raised') > NumViolations(raised)
CrossThread  == lastCaller # NoThread /\ lastCaller # thread

(***************************************************************************)
(* C1: a poll of a value whose this_ptr is set and that now lives at       *)
(* another address panics with "Future moved between poll calls" and       *)
(* returns no status, however many polls succeeded before.                 *)
(***************************************************************************)
MovedPollPanics ==
    [][(PollStep /\ Moved) =>
          /\ unwinding' = MovedBetweenPolls
          /\ raised' = Append(raised, MovedBetweenPolls)
          /\ results' = results]_vars

MovedPollPanicsWitness ==
    /\ unwinding = MovedBetweenPolls
    /\ calls = 3
    /\ Len(results) = 2
    /\ raised = <<MovedBetweenPolls>>

(***************************************************************************)
(* C2: a drop, on a thread that is not unwinding, of a value that was      *)
(* polled at one address and now lives at another panics with "Future      *)
(* moved before drop".                                                     *)
(***************************************************************************)
MovedDropPanics ==
    [][(DropStep /\ ~panicking /\ Moved) =>
          /\ unwinding' = MovedBeforeDrop
          /\ raised' = Append(raised, MovedBeforeDrop)]_vars

MovedDropPanicsWitness ==
    /\ dropped
    /\ calls = 1
    /\ relocs = 1
    /\ unwinding = MovedBeforeDrop
    /\ raised = <<MovedBeforeDrop>>

(***************************************************************************)
(* C3: a value that was never polled raises no violation, wherever it was  *)
(* moved before it was dropped; and the first poll raises no violation,    *)
(* whatever moves came before it.                                          *)
(***************************************************************************)
UnpolledNeverViolates ==
    /\ [](calls = 0 => NumViolations(raised) = 0)
    /\ [][(calls = 0 /\ PollStep) =>
             NumViolations(raised') = NumViolations(raised)]_vars

UnpolledNeverViolatesWitness ==
    /\ dropped
    /\ dropCtx = NoPanic
    /\ calls = 0
    /\ relocs = 2
    /\ raised = << >>

(***************************************************************************)
(* C4: a drop that runs while the thread is unwinding raises nothing,      *)
(* whether or not the value was polled and wherever it lives; when the     *)
(* wrapped future panicked and the moved value is dropped during that      *)
(* unwinding, the panic of the wrapped future is the only failure.         *)
(***************************************************************************)
DropWhileUnwindingSilent ==
    /\ [][(DropStep /\ panicking) =>
             /\ raised' = raised
             /\ unwinding' = unwinding]_vars
    /\ [](dropped /\ dropCtx = InnerFailure /\ catches = 0
             => raised = <<InnerFailure>>)

DropWhileUnwindingSilentWitness ==
    /\ dropped
    /\ dropCtx = InnerFailure
    /\ Moved
    /\ catches = 0
    /\ raised = <<InnerFailure>>

(***************************************************************************)
(* C5: new, poll at A returning Pending, move to B, poll at B, drop during *)
(* the unwinding: the second poll panics with "Future moved between poll   *)
(* calls", the drop adds nothing, and that panic is the only one.          *)
(***************************************************************************)
DoublePanicScenario ==
    /\ calls = 2
    /\ results = <<Pending>>
    /\ future = <<Pending>>
    /\ relocs = 1
    /\ catches = 0

DontDoublePanic ==
    DoublePanicScenario =>
        /\ raised = <<MovedBetweenPolls>>
        /\ dropped => dropCtx = MovedBetweenPolls

DontDoublePanicWitness ==
    /\ DoublePanicScenario
    /\ dropped
    /\ Moved
    /\ unwinding = MovedBetweenPolls

(***************************************************************************)
(* C6 as stated: over the whole life of one value at most one violation is *)
(* raised, also after the harness has caught the first.                    *)
(***************************************************************************)
AtMostOneViolation == NumViolations(raised) <= 1

(***************************************************************************)
(* C6 amended: at most one failure is raised per unwinding.  A panic is    *)
(* only ever raised on a thread that is not unwinding, so the panics       *)
(* raised never outnumber the unwindings the harness has ended by more     *)
(* than one; after a catch the checks are live again.                      *)
(***************************************************************************)
OneFailurePerUnwinding ==
    /\ Len(raised) <= catches + 1
    /\ NumViolations(raised) <= catches + 1

OneFailurePerUnwindingWitness ==
    /\ NumViolations(raised) = 2
    /\ catches = 1
    /\ panicking

(***************************************************************************)
(* C7 as stated: whenever the value was moved after its first poll and has *)
(* been dropped, some poll or the drop has raised a violation.             *)
(***************************************************************************)
EveryMoveDetected ==
    (dropped /\ movedPinned) => NumViolations(raised) >= 1

(***************************************************************************)
(* C7 amended: a move is reported when it is still in effect at the drop:  *)
(* whenever the value has been dropped at an address other than the one in *)
(* this_ptr, and the drop did not run during the unwinding of a panic of   *)
(* the wrapped future or of the harness, a violation has been raised.      *)
(***************************************************************************)
MoveInEffectDetected ==
    (dropped /\ Moved /\ dropCtx \notin {InnerFailure, Unrelated})
        => NumViolations(raised) >= 1

MoveInEffectDetectedWitness ==
    /\ dropped
    /\ Moved
    /\ movedPinned
    /\ relocs = 2
    /\ dropCtx = NoPanic
    /\ NumViolations(raised) = 1

(***************************************************************************)
(* C8: as long as the value is never moved, every poll polls the wrapped   *)
(* future exactly once and returns its status unchanged, so the statuses   *)
(* returned are those the wrapped future produced, in order; and neither   *)
(* a poll nor the drop raises a violation.                                 *)
(***************************************************************************)
TransparentWhenUnmoved ==
    relocs = 0 =>
        /\ Len(future) = calls
        /\ results = SelectSeq(future, IsStatus)
        /\ NumViolations(raised) = 0

TransparentWhenUnmovedWitness ==
    /\ relocs = 0
    /\ dropped
    /\ dropCtx = NoPanic
    /\ calls = 3
    /\ results = <<Pending, Pending, Ready(2)>>

(***************************************************************************)
(* C9: a panic of the wrapped future leaves poll as that panic, not as a   *)
(* violation, and the drop that runs during its unwinding adds none.       *)
(***************************************************************************)
InnerPanicPassesThrough ==
    /\ [][(Len(future') = Len(future) + 1
             /\ future'[Len(future')] = InnerPanic) =>
                /\ unwinding' = InnerFailure
                /\ raised' = Append(raised, InnerFailure)]_vars
    /\ [][(DropStep /\ unwinding = InnerFailure) =>
             /\ unwinding' = InnerFailure
             /\ raised' = raised]_vars

InnerPanicPassesThroughWitness ==
    /\ dropped
    /\ dropCtx = InnerFailure
    /\ unwinding = InnerFailure
    /\ Moved
    /\ calls = 2
    /\ results = <<Ready(1)>>
    /\ raised = <<InnerFailure>>

(***************************************************************************)
(* C10: this_ptr is null as long as the value has not been polled; new,    *)
(* moves and drop leave it null, and the first poll sets it to the address *)
(* the value has at that call.                                             *)
(***************************************************************************)
NullUntilFirstPoll ==
    /\ [](calls = 0 => this_ptr = Null)
    /\ [][(calls = 0 /\ PollStep) => this_ptr' = addr]_vars

NullUntilFirstPollWitness ==
    /\ calls = 1
    /\ relocs = 2
    /\ ~movedPinned
    /\ this_ptr = addr
    /\ ~dropped

(***************************************************************************)
(* C11: once this_ptr is set nothing rewrites it: every later poll,        *)
(* whether it succeeds or panics, every move and the drop leave it equal   *)
(* to the address the value had at its first poll.                         *)
(***************************************************************************)
OnceSetNeverRewritten ==
    /\ [][this_ptr # Null => this_ptr' = this_ptr]_vars
    /\ [](this_ptr # Null => this_ptr = pinnedAt)

OnceSetNeverRewrittenWitness ==
    /\ dropped
    /\ Moved
    /\ this_ptr = pinnedAt
    /\ relocs = 2
    /\ calls = 3
    /\ raised = <<MovedBetweenPolls>>

(***************************************************************************)
(* C12 as stated: a poll or drop made from another thread than the poll    *)
(* before it raises a violation exactly when the value lives at another    *)
(* address than this_ptr.                                                  *)
(***************************************************************************)
ThreadBlindChecks ==
    [][((PollStep \/ DropStep) /\ CrossThread) =>
          (NewViolation <=> Moved)]_vars

(***************************************************************************)
(* C12 amended: a poll made from another thread than the poll before it    *)
(* raises a violation exactly when the value lives at another address than *)
(* this_ptr; a drop made from another thread does so exactly when, in      *)
(* addition, the thread that drops is not itself unwinding.  Which thread  *)
(* calls matters only through that thread's own panicking().               *)
(***************************************************************************)
ThreadBlindUnlessUnwinding ==
    [][((PollStep \/ DropStep) /\ CrossThread) =>
          (NewViolation <=> (Moved /\ unwinding = NoPanic))]_vars

ThreadBlindUnlessUnwindingWitness ==
    /\ dropped
    /\ CrossThread
    /\ dropCtx = NoPanic
    /\ parked[lastCaller] = MovedBetweenPolls
    /\ unwinding = MovedBeforeDrop

(***************************************************************************)
(* C13: the address check comes before the delegation: a poll that raises  *)
(* a violation has not polled the wrapped future, has returned nothing and *)
(* has left this_ptr as it was.                                            *)
(***************************************************************************)
CheckBeforeDelegate ==
    [][(PollStep /\ NewViolation) =>
          /\ future' = future
          /\ results' = results
          /\ this_ptr' = this_ptr]_vars

CheckBeforeDelegateWitness ==
    /\ ~dropped
    /\ unwinding = MovedBetweenPolls
    /\ calls = 2
    /\ Len(future) = 1
    /\ this_ptr = pinnedAt

(***************************************************************************)
(* C14: dropping a polled value whose wrapped future is still pending, at  *)
(* the address of its first poll, raises nothing; drop never polls the     *)
(* wrapped future; and a drop raises a violation only if the value lives   *)
(* at another address than this_ptr.                                       *)
(***************************************************************************)
CancelIsLegal ==
    [][DropStep =>
          /\ future' = future
          /\ results' = results
          /\ (this_ptr # Null /\ addr = this_ptr) => raised' = raised
          /\ NewViolation => Moved]_vars

CancelIsLegalWitness ==
    /\ dropped
    /\ dropCtx = NoPanic
    /\ calls = 2
    /\ results = <<Pending, Pending>>
    /\ this_ptr = addr
    /\ raised = << >>

(***************************************************************************)
(* C15: the address is sampled at the checks only.  A poll raises a        *)
(* violation exactly when this_ptr is set and differs from the address at  *)
(* that call, a drop exactly when in addition the thread is not unwinding; *)
(* a value moved away and back between two checks raises nothing.          *)
(***************************************************************************)
ChecksSampleAddress ==
    [][/\ PollStep => (NewViolation <=> Moved)
       /\ DropStep => (NewViolation <=> (Moved /\ unwinding = NoPanic))]_vars

ChecksSampleAddressWitness ==
    /\ dropped
    /\ dropCtx = NoPanic
    /\ movedPinned
    /\ relocs = 2
    /\ calls = 2
    /\ Len(results) = 2
    /\ this_ptr = addr
    /\ raised = << >>

(***************************************************************************)
(* C16: for every value, a clone of a polled value included, this_ptr is   *)
(* null or the address at which that very value received its own first     *)
(* poll; so no value raises a violation unless it was itself moved after   *)
(* its own first poll.                                                     *)
(***************************************************************************)
CloneOwnsItsPin ==
    /\ this_ptr = Null \/ this_ptr = pinnedAt
    /\ NumViolations(raised) > 0 => movedPinned

(***************************************************************************)
(* C17: there is no completion state.  After the wrapped future has        *)
(* returned Ready, a poll of a moved value still panics with "Future moved *)
(* between poll calls", a poll of an unmoved value still polls the wrapped *)
(* future, and the drop of a moved value still panics with "Future moved   *)
(* before drop".                                                           *)
(***************************************************************************)
NoCompletionState ==
    /\ [][(Completed /\ PollStep) =>
             IF Moved
               THEN /\ unwinding' = MovedBetweenPolls
                    /\ future' = future
               ELSE Len(future') = Len(future) + 1]_vars
    /\ [][(Completed /\ DropStep /\ unwinding = NoPanic /\ Moved) =>
             unwinding' = MovedBeforeDrop]_vars

NoCompletionStateWitness ==
    /\ Completed
    /\ calls = 3
    /\ results = <<Ready(1), Pending>>
    /\ Len(future) = 2
    /\ unwinding = MovedBetweenPolls
====
